---- MODULE Spec2Model ----
(***************************************************************************)
(* Patient Management System API (src/main.py): a FastAPI application that *)
(* keeps every patient record in one JSON file, patients.json.             *)
(*                                                                         *)
(* Numbers are fixed point: a height is a whole number of centimetres, a   *)
(* weight and a bmi are whole numbers of hundredths (of a kilogram, of a   *)
(* bmi point), so 1.75 m is 175, 18.49 kg is 1849 and a bmi of 18.5 is     *)
(* 1850.  The heights used are multiples of 25 cm, whose value in metres   *)
(* and its square are exact binary floats; with a height of 200 cm only    *)
(* weights that are multiples of 0.25 kg are used.  On these inputs the    *)
(* float expression round(weight / height ** 2, 2) and the exact           *)
(* computation below give the same hundredths.                             *)
(*                                                                         *)
(* A JSON object is a function from key names to wrapped values: <<v>> is  *)
(* the value v and << >> is null.  A key that is not in the DOMAIN is not  *)
(* in the object.                                                          *)
(***************************************************************************)
EXTENDS Integers, Sequences, FiniteSets, TLC

VARIABLES
  file,     \* patients.json as a collection: a sequence of <<id, record>> in key order
  fstate,   \* what patients.json holds: "json" (the collection), "empty", "corrupt"
  fsize,    \* the length of patients.json, in characters
  req,      \* the request being answered
  resp,     \* the response to it
  proc      \* the requests in flight when handlers run in worker threads

vars == <<file, fstate, fsize, req, resp, proc>>

------------------------------------------------------------------------------
(* Values *)

Null == << >>

InputFields == {"name", "city", "age", "gender", "height", "weight"}

DerivedFields == {"bmi", "verdict"}

StoredFields == InputFields \cup DerivedFields

Genders == {"male", "female"}

Val(x) == x[1]

IsNull(x) == x = Null

------------------------------------------------------------------------------
(* class Patient *)

\* Patient(...): every field required and not null, age/height/weight >= 0,
\* gender one of the two literals.  Keys that are no field are ignored.
PatientValid(raw) ==
  /\ ({"id"} \cup InputFields) \subseteq DOMAIN raw
  /\ \A f \in {"id"} \cup InputFields : ~IsNull(raw[f])
  /\ Val(raw["age"]) >= 0
  /\ Val(raw["gender"]) \in Genders
  /\ Val(raw["height"]) >= 0
  /\ Val(raw["weight"]) >= 0

\* The model instance: the declared fields only.
Patient(raw) ==
  [id     |-> Val(raw["id"]),
   name   |-> Val(raw["name"]),
   city   |-> Val(raw["city"]),
   age    |-> Val(raw["age"]),
   gender |-> Val(raw["gender"]),
   height |-> Val(raw["height"]),
   weight |-> Val(raw["weight"])]

\* round(x, 2) of the quotient num / den, in hundredths: to the nearest
\* hundredth, an exact tie to the even one.
RoundHalfEven(num, den) ==
  LET q == num \div den
      r == num % den
  IN  IF 2 * r > den \/ (2 * r = den /\ q % 2 = 1) THEN q + 1 ELSE q

\* weight / (height ** 2) raises ZeroDivisionError when height is 0.
BmiRaises(p) == p.height = 0

\* Patient.bmi, in hundredths: weight/100 kg over (height/100 m) squared.
bmi(p) == RoundHalfEven(p.weight * 10000, p.height * p.height)

Bmi18_5 == 1850

Bmi24_9 == 2490

Bmi25 == 2500

Bmi29_9 == 2990

\* VerdictOf with 18.5 itself counted as Underweight.
VerdictOf_InclusiveBound(b) ==
  IF b <= Bmi18_5 THEN "Underweight"
  ELSE IF b < Bmi24_9 THEN "Normal weight"
  ELSE IF Bmi25 <= b /\ b < Bmi29_9 THEN "Overweight"
  ELSE "Obese"

VerdictOf(b) ==
  IF b < Bmi18_5 THEN "Underweight"
  ELSE IF Bmi18_5 <= b /\ b < Bmi24_9 THEN "Normal weight"
  ELSE IF Bmi25 <= b /\ b < Bmi29_9 THEN "Overweight"
  ELSE "Obese"

\* Patient.verdict
verdict(p) == VerdictOf(bmi(p))

\* model_dump without exclude={'id'}.
model_dump_WithId(p) ==
  [id      |-> p.id,
   name    |-> p.name,
   city    |-> p.city,
   age     |-> p.age,
   gender  |-> p.gender,
   height  |-> p.height,
   weight  |-> p.weight,
   bmi     |-> bmi(p),
   verdict |-> VerdictOf(bmi(p))]

\* patient.model_dump(exclude={'id'}): the fields but id, and the computed fields.
model_dump(p) ==
  [name    |-> p.name,
   city    |-> p.city,
   age     |-> p.age,
   gender  |-> p.gender,
   height  |-> p.height,
   weight  |-> p.weight,
   bmi     |-> bmi(p),
   verdict |-> verdict(p)]

------------------------------------------------------------------------------
(* The collection: a dict, in key order *)

Keys(data) == {data[i][1] : i \in 1..Len(data)}

IndexOf(data, id) == CHOOSE i \in 1..Len(data) : data[i][1] = id

\* data[id]
Get(data, id) == data[IndexOf(data, id)][2]

\* data[id] = rec: a present key keeps its place, a new key goes last.
Put(data, id, rec) ==
  IF id \in Keys(data)
  THEN [data EXCEPT ![IndexOf(data, id)] = <<id, rec>>]
  ELSE Append(data, <<id, rec>>)

\* del data[id]
Del(data, id) ==
  LET i == IndexOf(data, id)
  IN  SubSeq(data, 1, i - 1) \o SubSeq(data, i + 1, Len(data))

------------------------------------------------------------------------------
(* class PatientUpdate *)

\* PatientUpdate(...): every field optional and nullable; a value that is given
\* obeys the same constraints as in Patient.
PatientUpdateValid(raw) ==
  /\ "age" \in DOMAIN raw /\ ~IsNull(raw["age"]) => Val(raw["age"]) >= 0
  /\ "gender" \in DOMAIN raw /\ ~IsNull(raw["gender"]) => Val(raw["gender"]) \in Genders
  /\ "height" \in DOMAIN raw /\ ~IsNull(raw["height"]) => Val(raw["height"]) >= 0
  /\ "weight" \in DOMAIN raw /\ ~IsNull(raw["weight"]) => Val(raw["weight"]) >= 0

\* patient_update.model_dump(exclude_unset=True): the declared fields the
\* request body set, a field set to null included.
PatientUpdate(raw) == [f \in (DOMAIN raw) \cap InputFields |-> raw[f]]

------------------------------------------------------------------------------
(* Responses *)

NoPatient == << >>

NoItems == << >>

Response(status, patient, items) ==
  [status |-> status, patient |-> patient, items |-> items]

\* raise HTTPException(status_code=status)
HTTPException(status) == Response(status, NoPatient, NoItems)

\* An exception no handler catches: the server answers 500.
ServerError == Response(500, NoPatient, NoItems)

\* The request body fails the validation of its model: the handler is not
\* called and the server answers 422.
RequestInvalid == Response(422, NoPatient, NoItems)

\* What a handler does with the collection it loaded: its response, whether
\* it calls save_data, and the collection it saves.
Outcome(response, save, data) == [resp |-> response, save |-> save, data |-> data]

------------------------------------------------------------------------------
(* The handlers, on the collection load_data returned *)

get_patient_on(data, patient_id) ==
  IF patient_id \in Keys(data)
  THEN Outcome(Response(200, <<Get(data, patient_id)>>, NoItems), FALSE, data)
  ELSE Outcome(HTTPException(404), FALSE, data)

\* create_patient without the check for a present id.
create_patient_on_NoConflictCheck(data, raw) ==
  LET patient == Patient(raw)
  IN  IF BmiRaises(patient)
      THEN Outcome(ServerError, FALSE, data)
      ELSE LET data2 == Put(data, patient.id, model_dump(patient))
           IN  Outcome(Response(201, <<Get(data2, patient.id)>>, NoItems), TRUE, data2)

create_patient_on(data, raw) ==
  LET patient == Patient(raw)
  IN  IF patient.id \in Keys(data)
      THEN Outcome(HTTPException(400), FALSE, data)
      ELSE IF BmiRaises(patient)
      THEN Outcome(ServerError, FALSE, data)
      ELSE LET data2 == Put(data, patient.id, model_dump(patient))
           IN  Outcome(Response(201, <<Get(data2, patient.id)>>, NoItems), TRUE, data2)

\* The loop with data[patient_id].setdefault(field, value): a stored value stays.
Merged_SetDefault(stored, patient_id, update) ==
  [f \in {"id"} \cup StoredFields |->
     IF f = "id" THEN <<patient_id>> ELSE <<stored[f]>>]

\* for field, value in ...items(): data[patient_id][field] = value
\* The record as the raw object handed to Patient(id=patient_id, **data[patient_id]).
Merged(stored, patient_id, update) ==
  [f \in {"id"} \cup StoredFields |->
     IF f = "id" THEN <<patient_id>>
     ELSE IF f \in DOMAIN update THEN update[f]
     ELSE <<stored[f]>>]

\* update_patient without the round through Patient: the merged values are
\* saved with the bmi and the verdict the file had.
update_patient_on_NoRecompute(data, patient_id, raw) ==
  IF patient_id \notin Keys(data)
  THEN Outcome(HTTPException(404), FALSE, data)
  ELSE LET merged == Merged(Get(data, patient_id), patient_id, PatientUpdate(raw))
       IN  IF ~PatientValid(merged)
           THEN Outcome(ServerError, FALSE, data)
           ELSE LET p == Patient(merged)
                    rec == [name    |-> p.name,
                            city    |-> p.city,
                            age     |-> p.age,
                            gender  |-> p.gender,
                            height  |-> p.height,
                            weight  |-> p.weight,
                            bmi     |-> Get(data, patient_id).bmi,
                            verdict |-> Get(data, patient_id).verdict]
                    data2 == Put(data, patient_id, rec)
                IN  Outcome(Response(200, <<rec>>, NoItems), TRUE, data2)

update_patient_on(data, patient_id, raw) ==
  IF patient_id \notin Keys(data)
  THEN Outcome(HTTPException(404), FALSE, data)
  ELSE LET merged == Merged(Get(data, patient_id), patient_id, PatientUpdate(raw))
       IN  IF ~PatientValid(merged)
           THEN Outcome(ServerError, FALSE, data)
           ELSE IF BmiRaises(Patient(merged))
           THEN Outcome(ServerError, FALSE, data)
           ELSE LET data2 == Put(data, patient_id, model_dump(Patient(merged)))
                IN  Outcome(Response(200, <<Get(data2, patient_id)>>, NoItems), TRUE, data2)

\* delete_patient without save_data.
delete_patient_on_NoSave(data, patient_id) ==
  IF patient_id \in Keys(data)
  THEN Outcome(Response(200, NoPatient, NoItems), FALSE, Del(data, patient_id))
  ELSE Outcome(HTTPException(404), FALSE, data)

delete_patient_on(data, patient_id) ==
  IF patient_id \in Keys(data)
  THEN Outcome(Response(200, NoPatient, NoItems), TRUE, Del(data, patient_id))
  ELSE Outcome(HTTPException(404), FALSE, data)

------------------------------------------------------------------------------
(* sorted(data.items(), key=..., reverse=...) *)

RECURSIVE Reverse(_)
Reverse(s) == IF s = << >> THEN << >> ELSE Append(Reverse(Tail(s)), Head(s))

SortKey(item, sort_by) == item[2][sort_by]

\* x goes after every item whose key is not greater: equal keys keep their order.
RECURSIVE Insert(_, _, _)
Insert(x, s, sort_by) ==
  IF s = << >> THEN <<x>>
  ELSE IF SortKey(x, sort_by) < SortKey(Head(s), sort_by) THEN <<x>> \o s
  ELSE <<Head(s)>> \o Insert(x, Tail(s), sort_by)

RECURSIVE StableSort(_, _)
StableSort(s, sort_by) ==
  IF s = << >> THEN << >>
  ELSE Insert(s[Len(s)], StableSort(SubSeq(s, 1, Len(s) - 1), sort_by), sort_by)

\* A descending sort as the reverse of the ascending one.
sorted_ReverseAfter(items, sort_by, reverse) ==
  IF reverse
  THEN Reverse(StableSort(items, sort_by))
  ELSE StableSort(items, sort_by)

\* reverse=True reverses the list, sorts it and reverses it again, so that
\* equal keys keep their original order in both directions.
sorted(items, sort_by, reverse) ==
  IF reverse
  THEN Reverse(StableSort(Reverse(items), sort_by))
  ELSE StableSort(items, sort_by)

SortAttributes == {"age", "bmi", "weight", "height"}

SortOrders == {"asc", "desc"}

sort_patients_on(data, sort_by, order) ==
  Outcome(Response(200, NoPatient, sorted(data, sort_by, order = "desc")), FALSE, data)

------------------------------------------------------------------------------
(* Requests *)

Ids == {"P001", "P002"}

NoBody == << >>

Request(op, patient_id, body, sort_by, order) ==
  [op |-> op, id |-> patient_id, body |-> body, sort_by |-> sort_by, order |-> order]

NoRequest == Request("none", "", NoBody, "", "")

NoResponse == Response(0, NoPatient, NoItems)

\* A JSON body with all seven fields of Patient.
Raw(id, name, city, age, gender, height, weight) ==
  [id     |-> <<id>>,
   name   |-> <<name>>,
   city   |-> <<city>>,
   age    |-> <<age>>,
   gender |-> <<gender>>,
   height |-> <<height>>,
   weight |-> <<weight>>]

\* <<age, height, weight>> of the bodies sent to /create.
BodyShapes == {<<30, 100, 1850>>, <<30, 175, 7000>>, <<0, 100, 0>>, <<30, 0, 7000>>}

FullBodies ==
  {Raw(id, "Ann", "Pune", b[1], "male", b[2], b[3]) : id \in Ids, b \in BodyShapes}

\* Bodies the Patient model rejects, and one that also names the computed fields.
OtherBodies ==
  UNION {{Raw(id, "Ann", "Pune", -1, "male", 100, 1850),
          Raw(id, "Ann", "Pune", 30, "other", 100, 1850),
          [Raw(id, "Ann", "Pune", 30, "male", 100, 1850) EXCEPT !["name"] = Null],
          [f \in {"id", "name"} |-> Raw(id, "Ann", "Pune", 30, "male", 100, 1850)[f]],
          [f \in {"id"} \cup StoredFields |->
             IF f = "bmi" THEN <<1>>
             ELSE IF f = "verdict" THEN <<"Underweight">>
             ELSE Raw(id, "Ann", "Pune", 30, "male", 175, 7000)[f]]} : id \in Ids}

CreateBodies == FullBodies \cup OtherBodies

\* Bodies sent to /update/{patient_id}.
UpdateBodies ==
  {<< >>,
   [name |-> <<"Bob">>, gender |-> <<"female">>],
   [city |-> <<"Agra">>, age |-> <<0>>],
   [weight |-> <<1849>>, bmi |-> <<1>>, verdict |-> <<"Obese">>],
   [height |-> <<175>>, weight |-> <<7000>>],
   [height |-> <<0>>],
   [name |-> Null],
   [age |-> <<-1>>]}

SortByInputs == SortAttributes \cup {"name"}

OrderInputs == SortOrders \cup {"up"}

------------------------------------------------------------------------------
(* patients.json *)

\* load_data() raises when the file does not hold a JSON document.
LoadRaises == fstate # "json"

RECURSIVE Digits(_)
Digits(n) == IF n < 10 THEN 1 ELSE 1 + Digits(n \div 10)

\* The length of the text of a float given in hundredths: 1850 is 18.5, 1849
\* is 18.49, 7000 is 70.0.
FloatLen(v) == Digits(v \div 100) + 1 + (IF v % 10 = 0 THEN 1 ELSE 2)

\* The length of the text of a string: its characters and two quotes.
StrLen(str) == Len(str) + 2

\* The length of the text of a record's values.
ValuesLen(rec) ==
  StrLen(rec.name) + StrLen(rec.city) + Digits(rec.age) + StrLen(rec.gender)
    + FloatLen(rec.height) + FloatLen(rec.weight) + FloatLen(rec.bmi) + StrLen(rec.verdict)

\* The length of one item: four spaces, the key, a colon and a space, the
\* record's eight lines of eight spaces, key, colon, space and value, joined
\* by a comma and a newline, between braces on lines of their own.
ItemLen(item) ==
  LET keys == StrLen("name") + StrLen("city") + StrLen("age") + StrLen("gender")
                + StrLen("height") + StrLen("weight") + StrLen("bmi") + StrLen("verdict")
      lines == 8 * (8 + 2) + keys + ValuesLen(item[2]) + 7 * 2
  IN  4 + StrLen(item[1]) + 2 + 1 + 1 + lines + 1 + 4 + 1

RECURSIVE ItemsLen(_)
ItemsLen(data) == IF data = << >> THEN 0 ELSE ItemLen(Head(data)) + ItemsLen(Tail(data))

\* The length of the text json.dump(data, f, indent=4) writes.
TextLen(data) ==
  IF data = << >> THEN 2
  ELSE 2 + ItemsLen(data) + 2 * (Len(data) - 1) + 2

\* load_data()
load_data == file

\* save_data(data), with no other request touching the file meanwhile.
save_data(data) == file' = data /\ fstate' = "json" /\ fsize' = TextLen(data)

\* One request served from start to end: the response, and the save if the
\* handler got to it.
Serve(r, out) ==
  /\ req' = r
  /\ resp' = out.resp
  /\ IF out.save THEN save_data(out.data) ELSE UNCHANGED <<file, fstate, fsize>>

------------------------------------------------------------------------------
(* The endpoints, one request at a time *)

view_data ==
  /\ Serve(Request("view", "", NoBody, "", ""),
           IF LoadRaises THEN Outcome(ServerError, FALSE, file)
           ELSE Outcome(Response(200, NoPatient, load_data), FALSE, file))
  /\ UNCHANGED proc

get_patient(patient_id) ==
  /\ Serve(Request("get", patient_id, NoBody, "", ""),
           IF LoadRaises THEN Outcome(ServerError, FALSE, file)
           ELSE get_patient_on(load_data, patient_id))
  /\ UNCHANGED proc

sort_patients(sort_by, order) ==
  /\ Serve(Request("sort", "", NoBody, sort_by, order),
           IF sort_by \notin SortAttributes THEN Outcome(HTTPException(400), FALSE, file)
           ELSE IF order \notin SortOrders THEN Outcome(HTTPException(400), FALSE, file)
           ELSE IF LoadRaises THEN Outcome(ServerError, FALSE, file)
           ELSE sort_patients_on(load_data, sort_by, order))
  /\ UNCHANGED proc

create_patient(raw) ==
  /\ Serve(Request("create", "", raw, "", ""),
           IF ~PatientValid(raw) THEN Outcome(RequestInvalid, FALSE, file)
           ELSE IF LoadRaises THEN Outcome(ServerError, FALSE, file)
           ELSE create_patient_on(load_data, raw))
  /\ UNCHANGED proc

update_patient(patient_id, raw) ==
  /\ Serve(Request("update", patient_id, raw, "", ""),
           IF ~PatientUpdateValid(raw) THEN Outcome(RequestInvalid, FALSE, file)
           ELSE IF LoadRaises THEN Outcome(ServerError, FALSE, file)
           ELSE update_patient_on(load_data, patient_id, raw))
  /\ UNCHANGED proc

delete_patient(patient_id) ==
  /\ Serve(Request("delete", patient_id, NoBody, "", ""),
           IF LoadRaises THEN Outcome(ServerError, FALSE, file)
           ELSE delete_patient_on(load_data, patient_id))
  /\ UNCHANGED proc

NoProc == << >>

Init ==
  /\ file = << >>
  /\ fstate = "json"
  /\ fsize = TextLen(file)
  /\ req = NoRequest
  /\ resp = NoResponse
  /\ proc = NoProc

Next ==
  \/ view_data
  \/ \E patient_id \in Ids : get_patient(patient_id)
  \/ \E sort_by \in SortByInputs, order \in OrderInputs : sort_patients(sort_by, order)
  \/ \E raw \in CreateBodies : create_patient(raw)
  \/ \E patient_id \in Ids, raw \in UpdateBodies : update_patient(patient_id, raw)
  \/ \E patient_id \in Ids : delete_patient(patient_id)

Spec == Init /\ [][Next]_vars

------------------------------------------------------------------------------
(* The first create on an empty collection, over a range of heights and weights *)

MaxWeight == 3100

\* <<height, weight>>: heights of 0 to 175 cm in steps of 25 cm with every
\* weight up to MaxWeight, and 200 cm with the multiples of 0.25 kg.
BmiInputs ==
  {<<25 * k, w>> : k \in 0..7, w \in 0..MaxWeight}
    \cup {<<200, 25 * k>> : k \in 0..(MaxWeight \div 25)}

NextBmi ==
  \E hw \in BmiInputs :
    /\ req = NoRequest
    /\ create_patient(Raw("P001", "Ann", "Pune", 30, "male", hw[1], hw[2]))

SpecBmi == Init /\ [][NextBmi]_vars

------------------------------------------------------------------------------
(* Sort requests on the collections of up to MaxPatients records *)

MaxPatients == 3

IdPool == <<"P001", "P002", "P003", "P004", "P005">>

SortIds == {IdPool[i] : i \in 1..(IF MaxPatients < Len(IdPool) THEN MaxPatients ELSE Len(IdPool))}

\* Records as /create stores them; some agree on age, height, weight or bmi.
SortRecords ==
  {model_dump(Patient(Raw("P000", "Ann", "Pune", b[1], "male", b[2], b[3]))) :
     b \in {<<30, 100, 1850>>, <<30, 175, 7000>>, <<20, 100, 1850>>, <<25, 200, 7450>>}}

DistinctKeys(data) == \A i, j \in 1..Len(data) : data[i][1] = data[j][1] => i = j

SortFiles ==
  UNION {{data \in [1..n -> SortIds \X SortRecords] : DistinctKeys(data)} : n \in 0..MaxPatients}

InitSort ==
  /\ file \in SortFiles
  /\ fstate = "json"
  /\ fsize = TextLen(file)
  /\ req = NoRequest
  /\ resp = NoResponse
  /\ proc = NoProc

NextSort ==
  \E sort_by \in SortByInputs, order \in OrderInputs : sort_patients(sort_by, order)

SpecSort == InitSort /\ [][NextSort]_vars

------------------------------------------------------------------------------
(* Two mutating requests served by worker threads at the same time *)

\* The handlers are plain def functions, which the server runs in a pool of
\* threads.  A thread touches patients.json three times: load_data reads it,
\* open(..., 'w') in save_data truncates it, and leaving the with block
\* writes the text json.dump produced at the start of the file.  The file is
\* small enough for that text to go out in one write.
Workers == {"t1", "t2"}

ConcFiles ==
  {<< >>,
   <<<<"P001", model_dump(Patient(Raw("P001", "Ann", "Pune", 30, "male", 100, 1850)))>>>>,
   <<<<"P001", model_dump(Patient(Raw("P001", "Ann", "Pune", 30, "male", 100, 1850)))>>,
     <<"P002", model_dump(Patient(Raw("P002", "Ann", "Pune", 30, "male", 175, 7000)))>>>>}

ConcRequests ==
  {Request("create", "", Raw("P001", "Ann", "Pune", 30, "male", 175, 7000), "", ""),
   Request("create", "", Raw("P002", "Ann", "Pune", 0, "male", 100, 0), "", ""),
   Request("update", "P001", [name |-> <<"Bob">>, gender |-> <<"female">>], "", ""),
   Request("update", "P001", [weight |-> <<1849>>], "", ""),
   Request("update", "P002", [name |-> Null], "", ""),
   Request("delete", "P001", NoBody, "", ""),
   Request("delete", "P002", NoBody, "", "")}

NoOutcome == Outcome(NoResponse, FALSE, << >>)

\* A thread that has been handed the request r and has not run yet.
Thread(r) ==
  [pc |-> "load", req |-> r, data |-> << >>, after |-> {}, out |-> NoOutcome,
   opened |-> {}, resp |-> NoResponse]

\* The handler of request r, on the collection it loaded.
handler_on(data, r) ==
  CASE r.op = "create" -> create_patient_on(data, r.body)
    [] r.op = "update" -> update_patient_on(data, r.id, r.body)
    [] r.op = "delete" -> delete_patient_on(data, r.id)

\* The handler working on the file as it is when the thread gets to save.
Pending_Reloaded(t) == handler_on(file, proc[t].req)

\* What thread t's handler makes of the collection t loaded.
Pending(t) == handler_on(proc[t].data, proc[t].req)

\* The threads whose save_data has returned.
Saved == {u \in Workers : proc[u].pc = "done" /\ proc[u].out.save}

\* data = load_data(): json.load raises on a file that holds no JSON document.
\* The thread notes whose saves had returned when it read the file (after).
Load(t) ==
  /\ proc[t].pc = "load"
  /\ proc' = [proc EXCEPT ![t] =
                IF LoadRaises
                THEN [@ EXCEPT !.pc = "done", !.resp = ServerError]
                ELSE [@ EXCEPT !.pc = "loaded", !.data = load_data, !.after = Saved]]
  /\ UNCHANGED <<file, fstate, fsize, req, resp>>

\* The handler raises before save_data.
Respond(t) ==
  /\ proc[t].pc = "loaded"
  /\ ~Pending(t).save
  /\ proc' = [proc EXCEPT ![t] = [@ EXCEPT !.pc = "done", !.resp = Pending(t).resp]]
  /\ UNCHANGED <<file, fstate, fsize, req, resp>>

\* save_data: open('patients.json', 'w') truncates the file.  The thread
\* notes whose saves had returned when it opened the file (opened).
Open(t) ==
  /\ proc[t].pc = "loaded"
  /\ Pending(t).save
  /\ proc' = [proc EXCEPT ![t] = [@ EXCEPT !.pc = "write", !.out = Pending(t), !.opened = Saved]]
  /\ file' = << >>
  /\ fstate' = "empty"
  /\ fsize' = 0
  /\ UNCHANGED <<req, resp>>

\* save_data: the text is written at offset 0 and the file closed; the handler
\* returns its response.  Text that another thread wrote since this one
\* truncated the file stays where it is longer than this text: the file then
\* holds this text and the end of the other, which is no JSON document.
Write(t) ==
  /\ proc[t].pc = "write"
  /\ IF fsize <= TextLen(proc[t].out.data)
     THEN save_data(proc[t].out.data)
     ELSE file' = << >> /\ fstate' = "corrupt" /\ fsize' = fsize
  /\ proc' = [proc EXCEPT ![t] = [@ EXCEPT !.pc = "done", !.resp = proc[t].out.resp]]
  /\ UNCHANGED <<req, resp>>

InitConc ==
  /\ file \in ConcFiles
  /\ fstate = "json"
  /\ fsize = TextLen(file)
  /\ req = NoRequest
  /\ resp = NoResponse
  /\ proc \in [Workers -> {Thread(r) : r \in ConcRequests}]

NextConc ==
  \E t \in Workers :
    \/ Load(t)
    \/ Respond(t)
    \/ Open(t)
    \/ Write(t)

SpecConc == InitConc /\ [][NextConc]_vars

------------------------------------------------------------------------------
(* What the claims speak of *)

\* The id a create request names.
CreateId(r) == Val(r.body["id"])

\* A create request that reaches the handler.
IsCreate(r) == r.op = "create" /\ PatientValid(r.body)

\* An update request that reaches the handler.
IsUpdate(r) == r.op = "update" /\ PatientUpdateValid(r.body)

\* b is weight / height^2 to the nearest hundredth (height in cm, weight and b
\* in hundredths): b * height^2 is within half of height^2 of weight * 10000.
IsBmiOf(b, height, weight) ==
  LET d == b * height * height - weight * 10000
  IN  2 * d <= height * height /\ -2 * d <= height * height

\* The documented thresholds, on a bmi in hundredths.
IsVerdictOf(v, b) ==
  /\ v = "Underweight" <=> b < 1850
  /\ v = "Normal weight" <=> (1850 <= b /\ b < 2490)
  /\ v = "Overweight" <=> (2500 <= b /\ b < 2990)
  /\ v = "Obese" <=> ((2490 <= b /\ b < 2500) \/ b >= 2990)

\* The record carries the bmi and the verdict of its own height and weight.
Derived(rec) ==
  /\ rec.height > 0
  /\ IsBmiOf(rec.bmi, rec.height, rec.weight)
  /\ IsVerdictOf(rec.verdict, rec.bmi)

------------------------------------------------------------------------------
\* C1: a create whose id is already a key is answered 400, an update whose
\* patient_id is no key is answered 404, and in both cases patients.json is
\* after the request what it was before it.
C1_ConflictAndNotFoundLeaveStore ==
  [][/\ (IsCreate(req') /\ CreateId(req') \in Keys(file))
          => (resp'.status = 400 /\ file' = file /\ fstate' = fstate)
     /\ (IsUpdate(req') /\ req'.id \notin Keys(file))
          => (resp'.status = 404 /\ file' = file /\ fstate' = fstate)]_vars

C1_Witness ==
  /\ IsCreate(req)
  /\ CreateId(req) \in Keys(file)
  /\ resp.status = 400

\* C2: a successful update leaves every input field the body did not supply as
\* it was, gives every supplied field the supplied value, and changes neither
\* another record nor the keys and their order.
C2_UpdateFrame ==
  [][(IsUpdate(req') /\ resp'.status = 200) =>
       /\ req'.id \in Keys(file)
       /\ Len(file') = Len(file)
       /\ \A i \in 1..Len(file) :
            /\ file'[i][1] = file[i][1]
            /\ file[i][1] # req'.id => file'[i] = file[i]
       /\ \A f \in InputFields :
            IF f \in DOMAIN req'.body
            THEN ~IsNull(req'.body[f]) /\ Get(file', req'.id)[f] = Val(req'.body[f])
            ELSE Get(file', req'.id)[f] = Get(file, req'.id)[f]]_vars

C2_Witness ==
  /\ IsUpdate(req)
  /\ resp.status = 200
  /\ DOMAIN req.body = {"city", "age"}
  /\ Len(file) = 2
  /\ Get(file, req.id).name = "Bob"
  /\ Get(file, req.id).weight = 1849

\* C4: every record in patients.json and every record a create or an update
\* returns carries the bmi and the verdict derived from its own height and
\* weight, whatever the request bodies said about bmi and verdict.
C4_DerivedFieldsCurrent ==
  /\ \A i \in 1..Len(file) : Derived(file[i][2])
  /\ (req.op \in {"create", "update"} /\ resp.status \in {200, 201})
       => (resp.patient # NoPatient /\ Derived(resp.patient[1])
           /\ resp.patient[1] = Get(file, IF req.op = "create" THEN CreateId(req) ELSE req.id))

C4_Witness ==
  /\ req.op = "update"
  /\ resp.status = 200
  /\ "bmi" \in DOMAIN req.body
  /\ resp.patient[1].height = 175
  /\ resp.patient[1].bmi = 604

\* C5: a create with a body the schema admits and an id that is no key is
\* answered 201 with the record, which is then in patients.json under that id.
C5_ValidCreateSucceeds ==
  [][(IsCreate(req') /\ CreateId(req') \notin Keys(file)) =>
       /\ resp'.status = 201
       /\ CreateId(req') \in Keys(file')
       /\ resp'.patient = <<Get(file', CreateId(req'))>>
       /\ \A f \in InputFields : resp'.patient[1][f] = Val(req'.body[f])]_vars

\* C6: an update of a present id whose merged record fails the validation of
\* Patient is answered 400 and writes nothing.
C6_InvalidMergeAnswered400 ==
  [][(/\ IsUpdate(req')
      /\ req'.id \in Keys(file)
      /\ ~PatientValid(Merged(Get(file, req'.id), req'.id, PatientUpdate(req'.body))))
       => (resp'.status = 400 /\ file' = file /\ fstate' = fstate)]_vars

\* C7 as claimed: a stored value holds the six input attributes and nothing else.
C7_StoredInputFieldsOnly ==
  \A i \in 1..Len(file) : DOMAIN file[i][2] = InputFields

\* C7 as amended: a stored value holds the six input attributes and the two
\* derived fields bmi and verdict, and not the id.
C7_StoredFields ==
  \A i \in 1..Len(file) :
    /\ DOMAIN file[i][2] = InputFields \cup {"bmi", "verdict"}
    /\ "id" \notin DOMAIN file[i][2]

C7_Witness ==
  /\ IsUpdate(req)
  /\ resp.status = 200
  /\ Len(file) = 2
  /\ "bmi" \in DOMAIN Get(file, req.id)

\* C9: a successful delete removes its id and nothing else; a get of an id
\* that is no key is answered 404; an id that is no key becomes one only by a
\* successful create of that id.
C9_DeleteThenGet ==
  [][/\ (req'.op = "delete" /\ resp'.status = 200)
          => (/\ req'.id \in Keys(file)
              /\ req'.id \notin Keys(file')
              /\ file' = Del(file, req'.id)
              /\ \A id \in Keys(file) \ {req'.id} :
                   id \in Keys(file') /\ Get(file', id) = Get(file, id))
     /\ (req'.op = "get" /\ req'.id \notin Keys(file))
          => (resp'.status = 404 /\ file' = file)
     /\ \A id \in Keys(file') \ Keys(file) :
          IsCreate(req') /\ CreateId(req') = id /\ resp'.status = 201]_vars

C9_Witness ==
  /\ req.op = "delete"
  /\ resp.status = 200
  /\ req.id \notin Keys(file)
  /\ Len(file) = 1

\* C3: for a record with height > 0, bmi is weight / height^2 to the nearest
\* hundredth and the verdict follows the documented thresholds: below 18.5
\* Underweight, from 18.5 to below 24.9 Normal weight, from 25 to below 29.9
\* Overweight, anything else Obese; 18.5 is Normal weight, 18.49 Underweight.
C3_BmiAndVerdict ==
  (IsCreate(req) /\ Patient(req.body).height > 0) =>
    LET p == Patient(req.body)
        r == resp.patient[1]
    IN  /\ resp.status = 201
        /\ IsBmiOf(r.bmi, p.height, p.weight)
        /\ IsVerdictOf(r.verdict, r.bmi)
        /\ (p.height = 100 /\ p.weight = 1850) => (r.bmi = 1850 /\ r.verdict = "Normal weight")
        /\ (p.height = 100 /\ p.weight = 1849) => (r.bmi = 1849 /\ r.verdict = "Underweight")

C3_Witness ==
  /\ IsCreate(req)
  /\ resp.status = 201
  /\ Patient(req.body).height = 50
  /\ resp.patient[1].bmi = 2496
  /\ resp.patient[1].verdict = "Obese"

\* Where the item with this key stands in the collection.
Position(data, id) == CHOOSE i \in 1..Len(data) : data[i][1] = id

\* C8: a sort by age, bmi, weight or height returns the records of
\* patients.json, each once, in non-decreasing order of the attribute for asc
\* and non-increasing order for desc, records that agree on the attribute in
\* the order patients.json has them, and leaves patients.json as it is.
C8_StableSort ==
  [][(req'.op = "sort" /\ req'.sort_by \in SortAttributes /\ req'.order \in SortOrders) =>
       LET out == resp'.items
           k == req'.sort_by
       IN  /\ resp'.status = 200
           /\ file' = file
           /\ Len(out) = Len(file)
           /\ {out[i] : i \in 1..Len(out)} = {file[i] : i \in 1..Len(file)}
           /\ \A i, j \in 1..Len(out) :
                i < j =>
                  /\ req'.order = "asc" => out[i][2][k] <= out[j][2][k]
                  /\ req'.order = "desc" => out[i][2][k] >= out[j][2][k]
                  /\ out[i][2][k] = out[j][2][k]
                       => Position(file, out[i][1]) < Position(file, out[j][1])]_vars

C8_Witness ==
  /\ req.op = "sort"
  /\ req.sort_by = "bmi"
  /\ req.order = "desc"
  /\ resp.status = 200
  /\ Len(resp.items) = 3
  /\ resp.items[1][2].bmi > resp.items[2][2].bmi
  /\ resp.items[2][2].bmi = resp.items[3][2].bmi
  /\ resp.items # file

\* Both threads are done and both got to save_data.
BothSaved(t, u) == t # u /\ t \in Saved /\ u \in Saved

\* Both threads loaded before either saved.
BothLoadedFirst(t, u) == t \notin proc[u].after /\ u \notin proc[t].after

\* The two saves overlapped: neither thread opened the file after the other's
\* save had returned.
Overlapped(t, u) == t \notin proc[u].opened /\ u \notin proc[t].opened

\* The collection request r makes of the collection data.
Applied(r, data) == handler_on(data, r).data

====
